---- MODULE Spec2Model ----
(***************************************************************************)
(* Model of the three command-line tools of skills/mta-data/scripts:       *)
(* download-dataset.ts (parseArgs, the confirmation gate, the chunked      *)
(* downloader downloadDataset and the main block), search-datasets.ts      *)
(* (parseArgs and the catalog request) and analyze-data.ts (parseArgs,     *)
(* checkDuckDB, saveSqlQuery, runQuery).  One behaviour is the run of one   *)
(* tool on one argument list; the analysis tool may be run again on the    *)
(* same file system.                                                       *)
(*                                                                         *)
(* Text is modelled as a sequence of tokens.  A data row / JSON record is  *)
(* a positive integer (its 1-based position in the remote's order); the    *)
(* header line, the newline character, the JSON brackets and the comma are *)
(* the tokens HDR, NL, LBR, RBR, COMMA.  String.split, Array.join and      *)
(* JSON.parse are computed over these token sequences.                     *)
(***************************************************************************)
EXTENDS Integers, Sequences, FiniteSets, TLC

\* ------------------------------------------------------------------ bounds
MaxRows == 4        \* rows held by the remote dataset: 0..MaxRows
MaxChunk == 3       \* --chunk-size values: 1..MaxChunk
MaxLimit == 3       \* --limit values: 0..MaxLimit (or absent)
MaxFetches == 6     \* cap on the number of fetchChunk calls explored
MaxRuns == 2          \* invocations of analyze-data on one sql directory
MaxClock == 3         \* clock readings, in ticks
TicksPerSecond == 2   \* ticks in one clock second

\* ------------------------------------------------------------------ tokens
HDR == 0            \* the csv header line
NL == -1            \* '\n'
LBR == -2           \* '['
RBR == -3           \* ']'
COMMA == -4         \* ','
OBJ == -5           \* a JSON object that is not a record of the dataset
Undef == -1000      \* JavaScript undefined (an absent optional number)
NaN == -2000        \* JavaScript NaN (parseInt of a non-numeric string)

\* ----------------------------------------------------------------- helpers
Min(a, b) == IF a <= b THEN a ELSE b
Max(a, b) == IF a >= b THEN a ELSE b
Ceil(n, p) == (n + p - 1) \div p

\* JavaScript truthiness of an optional number: undefined, NaN and 0 are
\* falsy.
Truthy(x) == x # Undef /\ x # NaN /\ x # 0

\* a || b on optional numbers
OrElse(a, b) == IF Truthy(a) THEN a ELSE b

\* Math.min, +, < and <= of JavaScript numbers: NaN propagates through the
\* arithmetic and makes every comparison false
MathMin(a, b) == IF a = NaN \/ b = NaN THEN NaN ELSE Min(a, b)
Plus(a, b) == IF a = NaN \/ b = NaN THEN NaN ELSE a + b
Less(a, b) == a # NaN /\ b # NaN /\ a < b
LessEq(a, b) == a # NaN /\ b # NaN /\ a <= b

\* String.prototype.toLowerCase on the strings of the model
ToLowerCase(a) ==
  CASE a = "YES" -> "yes"
    [] a = "Y" -> "y"
    [] a = "JSON" -> "json"
    [] OTHER -> a

\* String.prototype.split(sep) on a token sequence
RECURSIVE Split(_, _)
Split(s, sep) ==
  IF \A i \in 1..Len(s) : s[i] # sep
  THEN <<s>>
  ELSE LET i == CHOOSE j \in 1..Len(s) :
                  s[j] = sep /\ \A k \in 1..(j - 1) : s[k] # sep
       IN <<SubSeq(s, 1, i - 1)>> \o Split(SubSeq(s, i + 1, Len(s)), sep)

\* Array.prototype.join(sep) on a sequence of token sequences
RECURSIVE Join(_, _)
Join(ls, sep) ==
  IF Len(ls) = 0 THEN <<>>
  ELSE IF Len(ls) = 1 THEN ls[1]
  ELSE ls[1] \o sep \o Join(Tail(ls), sep)

\* JSON.parse of a token sequence: whitespace is skipped; the result says
\* whether the text is no JSON value at all (JSON.parse throws), whether it
\* is one JSON array, and gives the array's elements.
JSONparse(s) ==
  LET t == SelectSeq(s, LAMBDA x : x # NL)
      n == Len(t)
      inner == IF n >= 2 THEN SubSeq(t, 2, n - 1) ELSE <<>>
      m == Len(inner)
      wellFormed ==
        /\ n >= 2
        /\ t[1] = LBR
        /\ t[n] = RBR
        /\ \/ m = 0
           \/ /\ m % 2 = 1
              /\ \A i \in 1..m : IF i % 2 = 1 THEN inner[i] > 0
                                               ELSE inner[i] = COMMA
  IN [throws |-> ~wellFormed /\ t # <<OBJ>>,
      isArray |-> wellFormed,
      rows |-> IF wellFormed
               THEN [i \in 1..((m + 1) \div 2) |-> inner[2 * i - 1]]
               ELSE <<>>]

\* --------------------------------------------------------------- the remote
\* Rows first..first+count-1 of the dataset, in remote order.
RowSeq(first, count) == [i \in 1..count |-> first + i - 1]

\* A csv page: the header line, then one line per row, with or without a
\* final newline.
CsvBody(first, count, nl) ==
  Join(<<<<HDR>>>> \o [i \in 1..count |-> <<first + i - 1>>], <<NL>>)
    \o (IF nl THEN <<NL>> ELSE <<>>)

\* A json page: an array of records.
JsonBody(first, count) ==
  <<LBR>> \o Join([i \in 1..count |-> <<first + i - 1>>], <<COMMA, NL>>)
    \o <<RBR, NL>>

\* The body of a remote-side failure (a non-success response): an error
\* object, with or without a final newline.
ErrorBody(nl) == <<OBJ>> \o (IF nl THEN <<NL>> ELSE <<>>)

\* A json page cut off before its closing bracket.
TruncatedBody(first, count) ==
  LET whole == JsonBody(first, count)
  IN SubSeq(whole, 1, Len(whole) - 2)

\* What a remote that honours $limit and $offset returns for a request; it
\* has no rows for a $limit or $offset that is not a number.
Available(req, n) ==
  IF req.limit = NaN \/ req.offset = NaN THEN 0
  ELSE Min(req.limit, Max(0, n - req.offset))

\* ------------------------------------------------------------------- state
VARIABLES
  tool,            \* the script that is run
  argv,            \* process.argv.slice(2)
  searchQuery,     \* search-datasets: the words of searchQuery
  searchLimit,     \* search-datasets: limit
  searchRequests,  \* search-datasets: the catalog requests issued
  query,           \* analyze-data: args.query
  sqlDir,          \* analyze-data: args.sqlDir
  duckdbInstalled, \* whether `which duckdb` finds the engine
  dirs,            \* the directories of the file system
  sqlFiles,        \* the query files: records [dir, name, text]
  saved,           \* ghost: the writes of saveSqlQuery, in order, and
                   \* whether the invocation went on to succeed
  spawned,         \* the invocations that started a duckdb subprocess
  clock,           \* the system clock, in ticks
  runs,            \* number of invocations so far
  format,          \* args.format: "csv" or "json"
  chunkSize,       \* args.chunkSize
  limit,           \* args.limit (Undef when --limit is absent)
  noConfirm,       \* args.noConfirm
  remoteRows,      \* number of rows the remote dataset holds
  trailingNL,      \* whether the remote ends a csv body with '\n'
  pc,              \* position of the main block / downloadDataset
  totalRows,       \* downloadDataset: totalRows
  countBody,       \* ghost: the response body countRows parsed
  answer,          \* the operator's reply to the prompt ("none" before it)
  rowsToDownload,  \* downloadDataset: rowsToDownload
  offset,          \* downloadDataset: offset
  downloadedRows,  \* downloadDataset: downloadedRows
  isFirstChunk,    \* downloadDataset: isFirstChunk
  file,            \* content of the destination file (token sequence)
  opened,          \* number of fs.createWriteStream calls
  ended,           \* number of outputStream.end calls
  reqs,            \* the fetchChunk requests issued: [limit, offset]
  rets,            \* number of rows returned by each answered request
  received,        \* the rows returned by all answered requests, in order
  kinds,           \* what each answered request returned: "rows", "error"
                   \* (a remote-side failure) or "truncated"
  progress,        \* the counter shown by each progress line
  completed,       \* the 'Download complete' line was printed
  exitCode,        \* process exit status (Undef while running)
  caught,          \* the catch block of the main block ran
  failure,         \* what was thrown: "none", "transport" or "parse"
  wellBehaved      \* every page so far held exactly min($limit, rest) rows

vars == <<tool, argv, searchQuery, searchLimit, searchRequests, query,
          sqlDir, duckdbInstalled, dirs, sqlFiles, saved, spawned, clock, runs,
          format, chunkSize, limit, noConfirm, remoteRows, trailingNL, pc,
          totalRows, countBody, answer, rowsToDownload, offset, downloadedRows,
          isFirstChunk, file, opened, ended, reqs, rets, received, kinds,
          progress, completed, exitCode, caught, failure, wellBehaved>>

cli == <<tool, argv>>
args == <<format, chunkSize, limit, noConfirm>>
remote == <<remoteRows, trailingNL>>
loopVars == <<offset, downloadedRows, isFirstChunk>>
stream == <<file, opened, ended>>
traffic == <<reqs, rets, received, kinds, wellBehaved>>
exit == <<exitCode, caught, failure>>
search == <<searchQuery, searchLimit, searchRequests>>
analysis == <<query, sqlDir, duckdbInstalled, dirs, sqlFiles, saved, spawned,
              clock, runs>>
download == <<args, remote, totalRows, countBody,
              answer, rowsToDownload, loopVars,
              stream, traffic, progress, completed>>
invocation == <<tool, argv, search, analysis>>

Formats == {"csv", "json"}
Answers == {"y", "Y", "YES", "n", ""}

\* ------------------------------------------------------------ argument lists
\* The strings of the model that start with '--'.
DashTokens ==
  {"--format", "--output", "--output-dir", "--limit", "--where", "--select",
   "--order", "--chunk-size", "--no-confirm", "--query", "--show-sql",
   "--sql-dir", "--bogus"}

\* String.prototype.startsWith('--')
StartsWithDashes(a) == a \in DashTokens

\* the body before countRows has run
NoBody == [isArray |-> FALSE, elements |-> <<>>]

\* if (totalRows > 50000 && !args.where): the size of a large dataset
LargeDataset == 50000

\* the numbers whose decimal text occurs in an argument list or in a count
\* response
Numerals == ((-1)..(MaxChunk + MaxLimit + MaxRows))
              \cup {LargeDataset, LargeDataset + 1}

\* parseInt(a, 10)
ParseInt(a) ==
  IF \E n \in Numerals : ToString(n) = a
  THEN CHOOSE n \in Numerals : ToString(n) = a
  ELSE NaN

\* download-dataset.ts parseArgs: chunkSize: 10000
DefaultChunkSize == 10000

\* download-dataset.ts parseArgs: the initial value of `parsed`; the absent
\* optional strings are ""
DownloadDefaults(id) ==
  [ok |-> TRUE, datasetId |-> id, format |-> "csv", output |-> "",
   outputDir |-> "./data", limit |-> Undef, where |-> "", select |-> "",
   order |-> "", chunkSize |-> DefaultChunkSize, noConfirm |-> FALSE]

\* console.error(...); process.exit(1) inside parseArgs
Rejected == [ok |-> FALSE]

\* download-dataset.ts parseArgs: the switch over args[i], from index i on
RECURSIVE DownloadOptions(_, _, _)
DownloadOptions(a, i, p) ==
  IF i > Len(a) THEN p
  ELSE IF a[i] = "--no-confirm"
    THEN DownloadOptions(a, i + 1, [p EXCEPT !.noConfirm = TRUE])
  ELSE IF a[i] \notin {"--format", "--output", "--output-dir", "--limit",
                       "--where", "--select", "--order", "--chunk-size"}
    THEN Rejected
  ELSE IF i + 1 > Len(a) THEN Rejected
  ELSE LET v == a[i + 1]
       IN CASE a[i] = "--format" ->
                 IF ToLowerCase(v) \notin Formats THEN Rejected
                 ELSE DownloadOptions(a, i + 2,
                                      [p EXCEPT !.format = ToLowerCase(v)])
            [] a[i] = "--output" ->
                 DownloadOptions(a, i + 2, [p EXCEPT !.output = v])
            [] a[i] = "--output-dir" ->
                 DownloadOptions(a, i + 2, [p EXCEPT !.outputDir = v])
            [] a[i] = "--limit" ->
                 DownloadOptions(a, i + 2, [p EXCEPT !.limit = ParseInt(v)])
            [] a[i] = "--where" ->
                 DownloadOptions(a, i + 2, [p EXCEPT !.where = v])
            [] a[i] = "--select" ->
                 DownloadOptions(a, i + 2, [p EXCEPT !.select = v])
            [] a[i] = "--order" ->
                 DownloadOptions(a, i + 2, [p EXCEPT !.order = v])
            [] a[i] = "--chunk-size" ->
                 DownloadOptions(a, i + 2,
                                 [p EXCEPT !.chunkSize = ParseInt(v)])

\* download-dataset.ts parseArgs, up to the end of the loop
ParseDownload(a) ==
  IF Len(a) = 0 \/ StartsWithDashes(a[1]) THEN Rejected
  ELSE DownloadOptions(a, 2, DownloadDefaults(a[1]))

\* path.dirname on the paths of the model
Dirname(path) == IF path = "out/rows.csv" THEN "out" ELSE "."

\* download-dataset.ts parseArgs, after the loop: the directory that
\* fs.mkdirSync(dir, { recursive: true }) creates when it does not exist
OutputDirectory(p) ==
  IF p.output = "" THEN p.outputDir ELSE Dirname(p.output)

\* The argument lists download-dataset.ts is run on: a dataset id followed
\* by any choice of --format, --chunk-size, --limit and --no-confirm, and
\* lists that are incomplete, carry an unknown option or name an output.
DownloadArgvs ==
  {<<"abcd-1234">> \o f \o c \o l \o n :
     f \in {<<>>, <<"--format", "JSON">>},
     c \in {<<>>} \cup {<<"--chunk-size", ToString(k)>> : k \in (-1)..MaxChunk},
     l \in {<<>>} \cup {<<"--limit", ToString(k)>> : k \in 0..MaxLimit},
     n \in {<<>>, <<"--no-confirm">>}}
  \cup
  {<<>>,
   <<"--format", "json">>,
   <<"abcd-1234", "--bogus">>,
   <<"abcd-1234", "--output-dir", "out", "--bogus">>,
   <<"abcd-1234", "--no-confirm", "--limit">>,
   <<"abcd-1234", "--format", "xml">>,
   <<"abcd-1234", "--format">>,
   <<"abcd-1234", "--chunk-size", "many", "--no-confirm">>,
   <<"abcd-1234", "--limit", "all", "--no-confirm">>,
   <<"abcd-1234", "--where", "w", "--no-confirm">>,
   <<"abcd-1234", "--output-dir", "out", "--no-confirm">>,
   <<"abcd-1234", "--output", "out/rows.csv", "--no-confirm">>,
   <<"abcd-1234", "--output", "rows.csv", "--no-confirm">>}

\* search-datasets.ts parseArgs: let limit = 10
DefaultSearchLimit == 10

\* search-datasets.ts parseArgs: the loop over args from index i on, with
\* the words of searchQuery (joined by ' ') in q
RECURSIVE SearchOptions(_, _, _, _)
SearchOptions(a, i, q, lim) ==
  IF i > Len(a) THEN [searchQuery |-> q, limit |-> lim]
  ELSE IF a[i] = "--limit" /\ i + 1 <= Len(a)
    THEN SearchOptions(a, i + 2, q, ParseInt(a[i + 1]))
    ELSE SearchOptions(a, i + 1, Append(q, a[i]), lim)

\* search-datasets.ts parseArgs
ParseSearch(a) ==
  LET p == SearchOptions(a, 1, <<>>, DefaultSearchLimit)
  IN IF p.searchQuery = <<>> THEN Rejected
     ELSE [ok |-> TRUE, searchQuery |-> p.searchQuery, limit |-> p.limit]

\* The argument lists search-datasets.ts is run on.
SearchArgvs ==
  {<<>>,
   <<"subway">>,
   <<"subway", "ridership">>,
   <<"subway", "--limit", "2">>,
   <<"--limit", "2", "subway">>,
   <<"--limit", "2">>,
   <<"subway", "--limit">>,
   <<"--limit">>,
   <<"subway", "--bogus">>,
   <<"subway", "--format", "json">>}

\* analyze-data.ts parseArgs: the initial value of `parsed`
AnalyzeDefaults(dataFile) ==
  [ok |-> TRUE, dataFile |-> dataFile, query |-> "", format |-> "table",
   output |-> "", showSql |-> FALSE, sqlDir |-> "./sql"]

\* analyze-data.ts parseArgs: the switch over args[i], from index i on
RECURSIVE AnalyzeOptions(_, _, _)
AnalyzeOptions(a, i, p) ==
  IF i > Len(a) THEN p
  ELSE IF a[i] = "--show-sql"
    THEN AnalyzeOptions(a, i + 1, [p EXCEPT !.showSql = TRUE])
  ELSE IF a[i] \notin {"--query", "--format", "--output", "--sql-dir"}
    THEN Rejected
  ELSE IF i + 1 > Len(a) THEN Rejected
  ELSE LET v == a[i + 1]
       IN CASE a[i] = "--query" ->
                 AnalyzeOptions(a, i + 2, [p EXCEPT !.query = v])
            [] a[i] = "--format" ->
                 IF ToLowerCase(v) \notin {"table", "json", "csv"}
                 THEN Rejected
                 ELSE AnalyzeOptions(a, i + 2,
                                     [p EXCEPT !.format = ToLowerCase(v)])
            [] a[i] = "--output" ->
                 AnalyzeOptions(a, i + 2, [p EXCEPT !.output = v])
            [] a[i] = "--sql-dir" ->
                 AnalyzeOptions(a, i + 2, [p EXCEPT !.sqlDir = v])

\* fs.existsSync(parsed.dataFile): the data files there are
DataFiles == {"data.csv"}

\* analyze-data.ts parseArgs
ParseAnalyze(a) ==
  IF Len(a) = 0 THEN Rejected
  ELSE LET p == AnalyzeOptions(a, 2, AnalyzeDefaults(a[1]))
       IN IF ~p.ok THEN Rejected
          ELSE IF p.query = "" THEN Rejected
          ELSE IF p.dataFile \notin DataFiles THEN Rejected
          ELSE p

\* The queries analyze-data.ts is run on.
Queries == {"q1", "q2"}

\* The argument lists analyze-data.ts is run on.
AnalyzeArgvs ==
  {<<"data.csv", "--query", q>> \o d :
     q \in Queries, d \in {<<>>, <<"--sql-dir", "./mine">>}}
  \cup
  {<<>>,
   <<"data.csv">>,
   <<"missing.csv", "--query", "q1">>,
   <<"data.csv", "--query">>,
   <<"data.csv", "--query", "q1", "--sql-dir">>,
   <<"data.csv", "--bogus", "--query", "q1">>,
   <<"data.csv", "--query", "q1", "--limit", "2">>,
   <<"data.csv", "--query", "q1", "--format", "xml">>,
   <<"data.csv", "--query", "q1", "--format", "JSON", "--show-sql">>,
   <<"data.csv", "--query", "q2", "--output", "rows.csv">>}

Tools == {"search-datasets", "download-dataset", "analyze-data"}

Argvs(t) ==
  CASE t = "search-datasets" -> SearchArgvs
    [] t = "download-dataset" -> DownloadArgvs
    [] t = "analyze-data" -> AnalyzeArgvs

Init ==
  /\ tool \in Tools
  /\ argv \in Argvs(tool)
  /\ format = "csv"
  /\ chunkSize = DefaultChunkSize
  /\ limit = Undef
  /\ noConfirm = FALSE
  /\ remoteRows \in (IF tool = "download-dataset" THEN 0..MaxRows ELSE {0})
  /\ trailingNL \in (IF tool = "download-dataset" THEN BOOLEAN ELSE {FALSE})
  /\ searchQuery = <<>>
  /\ searchLimit = DefaultSearchLimit
  /\ searchRequests = <<>>
  /\ query = ""
  /\ sqlDir = "./sql"
  /\ duckdbInstalled \in (IF tool = "analyze-data" THEN BOOLEAN ELSE {TRUE})
  /\ dirs = {"."}
  /\ sqlFiles = {}
  /\ saved = <<>>
  /\ spawned = <<>>
  /\ clock = 0
  /\ runs = 1
  /\ pc = "parse"
  /\ totalRows = Undef
  /\ countBody = NoBody
  /\ answer = "none"
  /\ rowsToDownload = Undef
  /\ offset = 0
  /\ downloadedRows = 0
  /\ isFirstChunk = TRUE
  /\ file = <<>>
  /\ opened = 0
  /\ ended = 0
  /\ reqs = <<>>
  /\ rets = <<>>
  /\ received = <<>>
  /\ kinds = <<>>
  /\ progress = <<>>
  /\ completed = FALSE
  /\ exitCode = Undef
  /\ caught = FALSE
  /\ failure = "none"
  /\ wellBehaved = TRUE

\* ----------------------------------------------------- download-dataset.ts
\* a failed validation in parseArgs: the message, then process.exit(1)
ExitInvalid ==
  /\ pc' = "exited"
  /\ exitCode' = 1
  /\ failure' = "validation"
  /\ UNCHANGED caught

\* a rejection that comes after the output directory was made
RejectDownloadAfterMkdir ==
  /\ ExitInvalid
  /\ dirs' = dirs \cup {"./data"}
  /\ UNCHANGED args

\* parseArgs rejects the argument list inside its loop, before the block
\* that makes the output directory
RejectDownload ==
  /\ ExitInvalid
  /\ UNCHANGED <<args, dirs>>

\* const args = parseArgs();
ParseArgsDownload ==
  /\ pc = "parse"
  /\ tool = "download-dataset"
  /\ LET p == ParseDownload(argv)
     IN IF ~p.ok
        THEN RejectDownload
        ELSE /\ format' = p.format
             /\ chunkSize' = p.chunkSize
             /\ limit' = p.limit
             /\ noConfirm' = p.noConfirm
             /\ dirs' = dirs \cup {OutputDirectory(p)}
             /\ pc' = "metadata"
             /\ UNCHANGED exit
  /\ UNCHANGED <<cli, search, query, sqlDir, duckdbInstalled, sqlFiles, saved,
                 spawned, clock, runs, remote, totalRows, countBody, answer,
                 rowsToDownload, loopVars, stream, traffic, progress,
                 completed>>

\* if (!args.noConfirm && !args.limit)
NeedsCount == ~noConfirm /\ ~Truthy(limit)

\* await fetchMetadata(...), then the branch on the confirmation condition
FetchMetadata ==
  /\ pc = "metadata"
  /\ UNCHANGED invocation
  /\ pc' = IF NeedsCount THEN "count" ELSE "open"
  /\ UNCHANGED <<args, remote, totalRows, countBody,
                 answer, rowsToDownload, loopVars,
                 stream, traffic, progress, completed, exit>>

\* the counts the remote may report
Counts == (0..MaxRows) \cup {LargeDataset, LargeDataset + 1}

\* the texts a count field may hold: the decimal text of a count, the empty
\* string, a negative number and a text that is not a number
CountTexts == {ToString(c) : c \in Counts} \cup {"", "-1", "many"}

\* The well-formed JSON bodies the count request may be answered with: an
\* array of at most one object, with or without a count field, or an
\* object (isArray FALSE) such as an error report.
CountBodies ==
  {[isArray |-> TRUE, elements |-> <<>>],
   [isArray |-> FALSE, elements |-> <<>>],
   [isArray |-> TRUE, elements |-> <<[hasCount |-> FALSE, count |-> ""]>>]}
  \cup {[isArray |-> TRUE, elements |-> <<[hasCount |-> TRUE, count |-> t]>>] :
          t \in CountTexts}

\* result[0]?.count || '0'
CountText(result) ==
  IF result.isArray /\ Len(result.elements) > 0
     /\ result.elements[1].hasCount /\ result.elements[1].count # ""
  THEN result.elements[1].count
  ELSE "0"

\* const count = parseInt(result[0]?.count || '0', 10); resolve(count)
Count(result) == ParseInt(CountText(result))

\* totalRows = await countRows(...): the count parsed from the response
CountRows ==
  /\ pc = "count"
  /\ UNCHANGED invocation
  /\ \E result \in CountBodies :
       /\ countBody' = result
       /\ totalRows' = Count(result)
  /\ pc' = "confirm"
  /\ UNCHANGED <<args, remote, answer, rowsToDownload, loopVars, stream,
                 traffic, progress, completed, exit>>

\* a confirmDownload that takes every reply but 'n' as consent
AffirmativeUnlessNo(a) == ToLowerCase(a) # "n"

\* confirmDownload: answer.toLowerCase() === 'y' || ... === 'yes'
Affirmative(a) == ToLowerCase(a) = "y" \/ ToLowerCase(a) = "yes"

\* a cancellation that throws into the catch block of the main block
CancelThrows ==
  /\ pc' = "exited"
  /\ exitCode' = 1
  /\ caught' = TRUE
  /\ UNCHANGED failure

\* console.log('Download cancelled.'); process.exit(0);
CancelExit ==
  /\ pc' = "exited"
  /\ exitCode' = 0
  /\ UNCHANGED <<caught, failure>>

\* const confirmed = await confirmDownload(totalRows); if (!confirmed) exit
Confirm ==
  /\ pc = "confirm"
  /\ UNCHANGED invocation
  /\ \E a \in Answers :
       /\ answer' = a
       /\ IF Affirmative(a)
          THEN /\ pc' = "open"
               /\ UNCHANGED exit
          ELSE CancelExit
  /\ UNCHANGED <<args, remote, totalRows, countBody,
                 rowsToDownload, loopVars, stream,
                 traffic, progress, completed>>

\* rowsToDownload = args.limit || totalRows; createWriteStream; the three
\* loop variables; the opening bracket in json format
OpenOutput ==
  /\ pc = "open"
  /\ UNCHANGED invocation
  /\ rowsToDownload' = OrElse(limit, totalRows)
  /\ opened' = opened + 1
  /\ offset' = 0
  /\ downloadedRows' = 0
  /\ isFirstChunk' = TRUE
  /\ file' = IF format = "json" THEN <<LBR, NL>> ELSE <<>>
  /\ pc' = "loop"
  /\ UNCHANGED <<args, remote, totalRows, countBody,
                 answer, ended, traffic, progress,
                 completed, exit>>

\* a page cap that ignores the rows still to download
ChunkLimitPageOnly(size, toDownload, downloaded) == size

\* const chunkLimit = Math.min(chunkSize, rowsToDownload ? ... : chunkSize)
ChunkLimit(size, toDownload, downloaded) ==
  MathMin(size, IF Truthy(toDownload) THEN toDownload - downloaded ELSE size)

\* if (chunkLimit <= 0) break;
LoopBreak ==
  /\ pc = "loop"
  /\ UNCHANGED invocation
  /\ LessEq(ChunkLimit(chunkSize, rowsToDownload, downloadedRows), 0)
  /\ pc' = "finish"
  /\ UNCHANGED <<args, remote, totalRows, countBody,
                 answer, rowsToDownload, loopVars,
                 stream, traffic, progress, completed, exit>>

\* chunkParams $limit, $offset; fetchChunk(...) is called
IssueFetch ==
  /\ pc = "loop"
  /\ UNCHANGED invocation
  /\ ~LessEq(ChunkLimit(chunkSize, rowsToDownload, downloadedRows), 0)
  /\ Len(reqs) < MaxFetches
  /\ reqs' = Append(reqs,
       [limit |-> ChunkLimit(chunkSize, rowsToDownload, downloadedRows),
        offset |-> offset,
        counted |-> downloadedRows])
  /\ pc' = "await"
  /\ UNCHANGED <<args, remote, totalRows, countBody,
                 answer, rowsToDownload, loopVars,
                 stream, rets, received, kinds, wellBehaved, progress,
                 completed, exit>>

\* a separator decided by the index within the page alone
NeedsSeparatorInPage(isFirst, index) == index > 0

\* if (!isFirstChunk || index > 0) outputStream.write(',\n')
NeedsSeparator(isFirst, index) == ~isFirst \/ index > 0

\* rows.forEach(...): what the json branch writes for one page
RECURSIVE JsonRecords(_, _, _)
JsonRecords(rows, i, isFirst) ==
  IF i > Len(rows) THEN <<>>
  ELSE (IF NeedsSeparator(isFirst, i - 1) THEN <<COMMA, NL>> ELSE <<>>)
         \o <<rows[i]>> \o JsonRecords(rows, i + 1, FALSE)

\* a csv branch that writes every page with its header
CsvPayloadWithHeader(chunk, lines, isFirst) == chunk

\* what the csv branch writes for one page
CsvPayload(chunk, lines, isFirst) ==
  IF isFirst THEN chunk ELSE Join(Tail(lines), <<NL>>)

\* the number of rows the branch counts for one page
JsonCount(rows) == Len(rows)
CsvCount(lines) == Len(lines) - 1

\* offset += chunkLimit; the progress line
NextPage(cap, n) ==
  /\ offset' = Plus(offset, cap)
  /\ progress' = Append(progress, downloadedRows + n)
  /\ pc' = "loop"

\* break out of the loop
Break ==
  /\ pc' = "finish"
  /\ UNCHANGED <<offset, progress>>

\* an error that is swallowed: the run goes on to its completion
AbortSwallowed(what) ==
  /\ pc' = "finish"
  /\ failure' = what
  /\ UNCHANGED <<exitCode, caught>>

\* a rejection or exception inside downloadDataset: the catch block of the
\* main block prints the message and calls process.exit(1)
Abort(what) ==
  /\ pc' = "exited"
  /\ failure' = what
  /\ caught' = TRUE
  /\ exitCode' = 1

\* a json branch that writes the separator of a page before it parses it
JsonBranchWritesFirst(chunk, cap) ==
  LET parsed == JSONparse(chunk)
      rows == parsed.rows
  IN IF parsed.throws
     THEN /\ Abort("parse")
          /\ file' = file \o (IF NeedsSeparator(isFirstChunk, 0)
                               THEN <<COMMA, NL>> ELSE <<>>)
          /\ UNCHANGED <<loopVars, progress>>
     ELSE IF ~parsed.isArray \/ Len(rows) = 0
     THEN /\ Break
          /\ UNCHANGED <<file, downloadedRows, isFirstChunk, exit>>
     ELSE /\ UNCHANGED exit
          /\ file' = file \o JsonRecords(rows, 1, isFirstChunk)
          /\ isFirstChunk' = FALSE
          /\ downloadedRows' = downloadedRows + JsonCount(rows)
          /\ IF Less(JsonCount(rows), cap)
             THEN Break
             ELSE NextPage(cap, JsonCount(rows))

\* the json branch of the loop body, on the page body `chunk`
JsonBranch(chunk, cap) ==
  LET parsed == JSONparse(chunk)
      rows == parsed.rows
  IN IF parsed.throws
     THEN /\ Abort("parse")
          /\ UNCHANGED <<file, loopVars, progress>>
     ELSE IF ~parsed.isArray \/ Len(rows) = 0
     THEN /\ Break
          /\ UNCHANGED <<file, downloadedRows, isFirstChunk, exit>>
     ELSE /\ UNCHANGED exit
          /\ file' = file \o JsonRecords(rows, 1, isFirstChunk)
          /\ isFirstChunk' = FALSE
          /\ downloadedRows' = downloadedRows + JsonCount(rows)
          /\ IF Less(JsonCount(rows), cap)
             THEN Break
             ELSE NextPage(cap, JsonCount(rows))

\* the csv branch of the loop body, on the page body `chunk`
CsvBranch(chunk, cap) ==
  LET lines == Split(chunk, NL)
  IN IF Len(lines) <= 1
     THEN /\ Break
          /\ UNCHANGED <<file, downloadedRows, isFirstChunk, exit>>
     ELSE /\ UNCHANGED exit
          /\ file' = file \o CsvPayload(chunk, lines, isFirstChunk)
          /\ isFirstChunk' = FALSE
          /\ downloadedRows' = downloadedRows + CsvCount(lines)
          /\ IF Less(CsvCount(lines), cap)
             THEN Break
             ELSE NextPage(cap, CsvCount(lines))

\* the kinds of response body fetchChunk may resolve with
Kinds == {"rows", "error", "truncated"}

\* the body of a response of kind k holding r rows
Body(k, req, r) ==
  IF k = "error" THEN ErrorBody(trailingNL)
  ELSE IF k = "truncated" THEN TruncatedBody(req.offset + 1, r)
  ELSE IF format = "json" THEN JsonBody(req.offset + 1, r)
  ELSE CsvBody(req.offset + 1, r, trailingNL)

\* fetchChunk resolves with a response body (a page of r rows, a remote-side
\* failure or a truncated json page) and the loop body runs on it
ReceiveChunk ==
  /\ pc = "await"
  /\ UNCHANGED invocation
  /\ LET req == reqs[Len(reqs)]
     IN \E k \in Kinds, r \in 0..Available(req, remoteRows) :
          /\ k = "truncated" => format = "json"
          /\ k = "error" => r = 0
          /\ kinds' = Append(kinds, k)
          /\ rets' = Append(rets, IF k = "rows" THEN r ELSE 0)
          /\ received' = received \o
                           (IF k = "rows" THEN RowSeq(req.offset + 1, r)
                                          ELSE <<>>)
          /\ wellBehaved' = (/\ wellBehaved
                             /\ k = "rows"
                             /\ r = Available(req, remoteRows))
          /\ IF format = "json"
             THEN JsonBranch(Body(k, req, r), req.limit)
             ELSE CsvBranch(Body(k, req, r), req.limit)
  /\ UNCHANGED <<args, remote, totalRows, countBody,
                 answer, rowsToDownload, opened,
                 ended, reqs, completed>>

\* fetchChunk rejects: the catch block of the main block, process.exit(1)
FetchFails ==
  /\ pc = "await"
  /\ UNCHANGED invocation
  /\ Abort("transport")
  /\ UNCHANGED <<args, remote, totalRows, countBody,
                 answer, rowsToDownload, loopVars,
                 stream, traffic, progress, completed>>

\* after the loop: the closing bracket, outputStream.end(), the completion
\* line; the main block's promise settles and the process ends with status 0
Finish ==
  /\ pc = "finish"
  /\ UNCHANGED invocation
  /\ file' = IF format = "json" THEN file \o <<NL, RBR, NL>> ELSE file
  /\ ended' = ended + 1
  /\ completed' = TRUE
  /\ exitCode' = 0
  /\ pc' = "done"
  /\ UNCHANGED <<args, remote, totalRows, countBody,
                 answer, rowsToDownload, loopVars,
                 opened, traffic, progress, caught, failure>>

\* ------------------------------------------------------ search-datasets.ts
\* const args = parseArgs();
ParseArgsSearch ==
  /\ pc = "parse"
  /\ tool = "search-datasets"
  /\ LET p == ParseSearch(argv)
     IN IF ~p.ok
        THEN /\ ExitInvalid
             /\ UNCHANGED <<searchQuery, searchLimit>>
        ELSE /\ searchQuery' = p.searchQuery
             /\ searchLimit' = p.limit
             /\ pc' = "search"
             /\ UNCHANGED exit
  /\ UNCHANGED <<cli, searchRequests, analysis, download>>

\* searchDatasets(args.searchQuery, args.limit): https.get(url, ...)
SearchDatasets ==
  /\ pc = "search"
  /\ searchRequests' = Append(searchRequests,
                              [q |-> searchQuery, limit |-> searchLimit])
  /\ pc' = "await-search"
  /\ UNCHANGED <<cli, searchQuery, searchLimit, analysis, download, exit>>

\* the request settles: a parsed response is listed and the process ends
\* with status 0; a failed request or an unparsable body is caught
SearchSettles ==
  /\ pc = "await-search"
  /\ \E resolved \in BOOLEAN :
       IF resolved
       THEN /\ pc' = "done"
            /\ exitCode' = 0
            /\ UNCHANGED <<caught, failure>>
       ELSE Abort("request")
  /\ UNCHANGED <<cli, search, analysis, download>>

\* --------------------------------------------------------- analyze-data.ts
\* const args = parseArgs();
ParseArgsAnalyze ==
  /\ pc = "parse"
  /\ tool = "analyze-data"
  /\ LET p == ParseAnalyze(argv)
     IN IF ~p.ok
        THEN /\ ExitInvalid
             /\ UNCHANGED <<query, sqlDir>>
        ELSE /\ query' = p.query
             /\ sqlDir' = p.sqlDir
             /\ pc' = "run"
             /\ UNCHANGED exit
  /\ UNCHANGED <<cli, search, duckdbInstalled, dirs, sqlFiles, saved, spawned,
                 clock, runs, download>>

\* checkDuckDB(): spawnSync('which', ['duckdb']).status === 0
CheckDuckDB == duckdbInstalled

\* new Date().toISOString() cut to the second: YYYY-MM-DD_HH-MM-SS. The two
\* readings of the clock in saveSqlQuery are taken as one.
Timestamp(t) == t \div TicksPerSecond

\* saveSqlQuery(args): the directory is created when missing and the query
\* is written to query_<timestamp>.sql, replacing a file of that name
SaveSqlQuery ==
  LET name == Timestamp(clock)
  IN /\ dirs' = dirs \cup {sqlDir}
     /\ sqlFiles' = {f \in sqlFiles : ~(f.dir = sqlDir /\ f.name = name)}
                      \cup {[dir |-> sqlDir, name |-> name, text |-> query]}
     /\ saved' = Append(saved, [dir |-> sqlDir, name |-> name, text |-> query,
                                run |-> runs, succeeded |-> FALSE])

\* a run that saves the query before it finds the engine missing
EngineMissingAfterSave ==
  /\ SaveSqlQuery
  /\ Abort("duckdb")
  /\ UNCHANGED spawned

\* if (!checkDuckDB()) { ...; throw new Error('DuckDB not installed') }
EngineMissing ==
  /\ Abort("duckdb")
  /\ UNCHANGED <<dirs, sqlFiles, saved, spawned>>

\* await runQuery(args), up to spawn('duckdb', duckdbArgs)
RunQuery ==
  /\ pc = "run"
  /\ IF ~CheckDuckDB
     THEN EngineMissing
     ELSE /\ SaveSqlQuery
          /\ spawned' = Append(spawned, runs)
          /\ pc' = "await-duckdb"
          /\ UNCHANGED exit
  /\ UNCHANGED <<cli, search, query, sqlDir, duckdbInstalled, clock, runs,
                 download>>

\* duckdb.on('close', code) and duckdb.on('error'): status 0 prints the
\* result and the process ends with status 0; anything else is caught
DuckdbSettles ==
  /\ pc = "await-duckdb"
  /\ \E outcome \in {"close 0", "close 1", "error"} :
       IF outcome = "close 0"
       THEN /\ pc' = "done"
            /\ exitCode' = 0
            /\ saved' = [saved EXCEPT ![Len(saved)].succeeded = TRUE]
            /\ UNCHANGED <<caught, failure>>
       ELSE /\ Abort("engine")
            /\ UNCHANGED saved
  /\ UNCHANGED <<cli, search, query, sqlDir, duckdbInstalled, dirs, sqlFiles,
                 spawned, clock, runs, download>>

\* time passes while the analysis tool is in use
Tick ==
  /\ tool = "analyze-data"
  /\ clock < MaxClock
  /\ clock' = clock + 1
  /\ UNCHANGED <<cli, search, query, sqlDir, duckdbInstalled, dirs, sqlFiles,
                 saved, spawned, runs, download, pc, exit>>

\* analyze-data.ts is run again, on the same file system
Reinvoke ==
  /\ tool = "analyze-data"
  /\ pc \in {"done", "exited"}
  /\ runs < MaxRuns
  /\ runs' = runs + 1
  /\ argv' \in AnalyzeArgvs
  /\ query' = ""
  /\ sqlDir' = "./sql"
  /\ pc' = "parse"
  /\ exitCode' = Undef
  /\ caught' = FALSE
  /\ failure' = "none"
  /\ UNCHANGED <<tool, search, duckdbInstalled, dirs, sqlFiles, saved,
                 spawned, clock, download>>

Next ==
  \/ ParseArgsSearch
  \/ SearchDatasets
  \/ SearchSettles
  \/ ParseArgsAnalyze
  \/ RunQuery
  \/ DuckdbSettles
  \/ Tick
  \/ Reinvoke
  \/ ParseArgsDownload
  \/ FetchMetadata
  \/ CountRows
  \/ Confirm
  \/ OpenOutput
  \/ LoopBreak
  \/ IssueFetch
  \/ ReceiveChunk
  \/ FetchFails
  \/ Finish

Spec == Init /\ [][Next]_vars

\* The process keeps running while it has a step to take: the event loop
\* runs every pending callback and every awaited response settles.
LiveSpec == Spec /\ WF_vars(Next)

\* ------------------------------------------------------------------ claims
\* The data rows found in the destination file, in file order.
FileRows == SelectSeq(file, LAMBDA x : x > 0)

\* The lines of the destination file.
FileLines == Split(file, NL)

\* A run without --limit against a remote that returned exactly
\* min($limit, rows after $offset) rows per page, whose total was either
\* not counted (--no-confirm) or counted exactly, with a page size P >= 1,
\* and which has completed.
FullRunDone ==
  /\ pc = "done"
  /\ chunkSize >= 1
  /\ limit = Undef
  /\ wellBehaved
  /\ (noConfirm \/ totalRows = remoteRows)

\* C1: without --limit, against a well-behaved remote holding N rows, the
\* number of fetchChunk calls is exactly ceil(N / P), in both formats, with
\* or without a pre-counted total.
C1_FetchesAreCeil ==
  FullRunDone => Len(reqs) = Ceil(remoteRows, chunkSize)

\* C2: without --limit, against a well-behaved remote holding N rows, the
\* completed output file holds each of the N rows exactly once, in remote
\* order.
C2_AllRowsOnceInOrder ==
  FullRunDone => FileRows = RowSeq(1, remoteRows)

\* C3: with a row limit L, 1 <= L < N, against a well-behaved remote, the
\* completed output file holds exactly the first L rows.
C3_ExactlyLimitRows ==
  (pc = "done" /\ wellBehaved /\ chunkSize >= 1 /\ limit >= 1
     /\ limit < remoteRows)
    => FileRows = RowSeq(1, limit)

\* C4: with a row limit L >= 1 and a page size P >= 1, at most ceil(L / P)
\* fetches are issued, and a fetch is only ever in flight while the
\* committed-row counter is below L.
C4_FetchesWithinLimit ==
  (limit >= 1 /\ chunkSize >= 1) =>
    /\ Len(reqs) <= Ceil(limit, chunkSize)
    /\ (pc = "await" => downloadedRows < limit)

\* C4 witness: a completed multi-page run that stopped at the limit after a
\* full last page while the remote still held more rows.
C4_Witness ==
  /\ pc = "done"
  /\ limit >= 1
  /\ Len(reqs) >= 2
  /\ Len(reqs) = Ceil(limit, chunkSize)
  /\ rets[Len(rets)] = reqs[Len(reqs)].limit
  /\ downloadedRows = limit
  /\ remoteRows > limit

\* The number of header tokens in the destination file.
FileHeaders == Len(SelectSeq(file, LAMBDA x : x = HDR))

\* The first answered page had a body of more than one line.
FirstPageHasLines == rets[1] >= 1 \/ trailingNL

\* Every answered page was a page of the dataset: in csv format its body
\* begins with the header line.
AllPagesAreTables == \A k \in 1..Len(kinds) : kinds[k] = "rows"

\* C5 as stated: in csv format, once K >= 1 pages were fetched the output
\* file holds exactly one header line, as its first line, and every data
\* row received.
C5_OneHeaderAlways ==
  (format = "csv" /\ pc = "done" /\ Len(rets) >= 1 /\ AllPagesAreTables)
    => /\ FileLines[1] = <<HDR>>
       /\ FileHeaders = 1
       /\ FileRows = received

\* C5 amended: in csv format, after K >= 1 answered pages, if the first
\* page body had more than one line (a data row or a final newline) the
\* file holds exactly one header line, as its first line, and every data
\* row received; if the first page body was a bare header line without a
\* newline, nothing is written and the file is empty.
C5_OneHeaderIfWritten ==
  (format = "csv" /\ Len(rets) >= 1 /\ AllPagesAreTables)
    => IF FirstPageHasLines
       THEN /\ FileLines[1] = <<HDR>>
            /\ FileHeaders = 1
            /\ FileRows = received
       ELSE file = <<>>

\* C5 witness: a completed csv download of three pages with data rows.
C5_Witness ==
  /\ format = "csv"
  /\ pc = "done"
  /\ Len(rets) >= 3
  /\ \A k \in 1..3 : rets[k] >= 1
  /\ FileHeaders = 1

\* The file downloadDataset writes when the whole dataset arrives as one
\* page.
SinglePageFile(n, nl) ==
  LET chunk == CsvBody(1, n, nl)
      lines == Split(chunk, NL)
  IN IF Len(lines) <= 1 THEN <<>> ELSE CsvPayload(chunk, lines, TRUE)

\* C6: in csv format, without --limit and against a well-behaved remote,
\* the completed output file is the same for every page size: it equals
\* the file of the single-page download.
C6_SameFileForEveryPageSize ==
  (FullRunDone /\ format = "csv")
    => file = SinglePageFile(remoteRows, trailingNL)

\* The text of a JSON array holding the given records, as the json branch
\* frames it.
FramedArray(rows) ==
  <<LBR, NL>> \o Join([i \in 1..Len(rows) |-> <<rows[i]>>], <<COMMA, NL>>)
    \o <<NL, RBR, NL>>

\* C7: in json format, when the loop exits normally the output file is one
\* valid JSON array: the opening bracket, the records of all pages with
\* exactly one comma between consecutive records, and the closing bracket.
C7_ValidJsonArray ==
  (format = "json" /\ pc = "done")
    => /\ JSONparse(file).isArray
       /\ JSONparse(file).rows = received
       /\ file = FramedArray(received)

\* C7 witness: a completed json download whose first two pages held rows.
C7_Witness ==
  /\ format = "json"
  /\ pc = "done"
  /\ Len(rets) >= 2
  /\ rets[1] >= 1
  /\ rets[2] >= 1

\* C8: if page k returned fewer rows than its requested cap, its rows are
\* committed and no page k+1 is ever requested.
C8_ShortPageStops ==
  \A k \in 1..Len(rets) :
    rets[k] < reqs[k].limit => (Len(reqs) = k /\ FileRows = received)

\* The replies confirmDownload is documented to accept.
YesAnswers == {"y", "Y", "yes", "Yes", "YES"}

\* C9: without --limit and without --no-confirm, no fetch is issued and the
\* output file is not opened unless the operator answered 'y' or 'yes'
\* (case-insensitive) to the prompt.
C9_NoFetchBeforeYes ==
  (limit = Undef /\ ~noConfirm)
    => ((Len(reqs) > 0 \/ opened > 0) => answer \in YesAnswers)

\* C9 witness: a fetch issued after the reply 'YES'.
C9_Witness ==
  /\ limit = Undef
  /\ ~noConfirm
  /\ answer = "YES"
  /\ Len(reqs) > 0

\* C10: when the operator declines, the process exits with status 0, not
\* through the catch block, and the output file is never opened.
C10_DeclineIsCleanExit ==
  (answer # "none" /\ answer \notin YesAnswers)
    => /\ pc = "exited"
       /\ exitCode = 0
       /\ ~caught
       /\ opened = 0
       /\ Len(reqs) = 0
       /\ ~completed

\* C10 witness: the process has exited after the reply 'n'.
C10_Witness ==
  /\ answer = "n"
  /\ pc = "exited"

\* C11: with --limit 0, or with a pre-counted total of 0 that the operator
\* confirmed, no page fetch is issued and the completed output file is
\* created and, in json format, an empty array.
C11_ZeroMeansNoFetch ==
  (limit = 0 \/ (limit = Undef /\ totalRows = 0 /\ answer \in YesAnswers))
    => /\ Len(reqs) = 0
       /\ pc = "done" =>
            /\ opened = 1
            /\ format = "json" => file = FramedArray(<<>>)

\* C12: the output stream is opened at most once and, on every exit path
\* after it was opened (completion, early stop, failed fetch, failed parse),
\* outputStream.end has been called exactly once.
C12_StreamClosedOnEveryExit ==
  /\ opened <= 1
  /\ ended <= opened
  /\ (pc \in {"done", "exited"} /\ opened = 1) => ended = 1

\* The text of a JSON array that was opened and not closed.
OpenArray(rows) ==
  <<LBR, NL>> \o Join([i \in 1..Len(rows) |-> <<rows[i]>>], <<COMMA, NL>>)

\* C13: when fetchChunk rejects on page k the download is aborted: page k
\* is the last request, nothing of it is written, in json format the file
\* holds the opening bracket and the records of pages 1..k-1 without the
\* closing bracket, the completion line is not printed and the process
\* exits with status 1.
C13_TransportFailureAborts ==
  failure = "transport"
    => /\ pc = "exited"
       /\ exitCode = 1
       /\ caught
       /\ ~completed
       /\ Len(reqs) = Len(rets) + 1
       /\ FileRows = received
       /\ format = "json" => file = OpenArray(received)

\* C13 witness: a json download whose second fetch was rejected after a
\* first page with rows.
C13_Witness ==
  /\ failure = "transport"
  /\ format = "json"
  /\ Len(reqs) = 2
  /\ rets[1] >= 1

\* The destination file holds (part of) the body of a failure response.
FileHoldsError == \E i \in 1..Len(file) : file[i] = OBJ

\* C14: a page response that is a remote-side failure (an error object
\* instead of a page) aborts the download with exit status 1; it is never
\* taken as the end of the data with a completion line and status 0, and
\* its body is never written to the output file.
C14_ErrorResponseAborts ==
  (\E k \in 1..Len(kinds) : kinds[k] = "error")
    => /\ ~completed
       /\ exitCode # 0
       /\ ~FileHoldsError

\* C15: a completed download has printed one progress line for every
\* fetched page that returned at least one row, the last page included.
C15_ProgressAfterEveryPage ==
  pc = "done"
    => Len(progress) = Cardinality({k \in 1..Len(rets) : rets[k] >= 1})

\* C16: without --limit and without --no-confirm, the operator is prompted
\* exactly when the pre-counted total exceeds 50,000 rows: a prompt implies
\* a total above 50,000, and a fetch after a total above 50,000 implies a
\* prompt.
C16_PromptOnlyAboveThreshold ==
  (limit = Undef /\ ~noConfirm)
    => /\ (pc = "confirm" \/ answer # "none") => totalRows > LargeDataset
       /\ (Len(reqs) > 0 /\ totalRows > LargeDataset) => answer # "none"

\* C17: a page size that is not a positive integer is rejected: no output
\* file is opened, no request is issued, the completion line is not printed
\* and the exit status is not 0; every request carries a $limit >= 1.
C17_PageSizeIsPositive ==
  /\ \A k \in 1..Len(reqs) : reqs[k].limit >= 1
  /\ chunkSize < 1
       => /\ opened = 0
          /\ Len(reqs) = 0
          /\ ~completed
          /\ exitCode # 0

\* the options each tool defines, and those of them that take a value
KnownFlags(t) ==
  CASE t = "search-datasets" -> {"--limit"}
    [] t = "download-dataset" ->
         {"--format", "--output", "--output-dir", "--limit", "--where",
          "--select", "--order", "--chunk-size", "--no-confirm"}
    [] t = "analyze-data" ->
         {"--query", "--format", "--output", "--show-sql", "--sql-dir"}
ValueFlags(t) == KnownFlags(t) \ {"--no-confirm", "--show-sql"}

\* the argument list holds an unknown flag, or ends in a value flag
MalformedArgv ==
  \/ \E i \in 1..Len(argv) :
       StartsWithDashes(argv[i]) /\ argv[i] \notin KnownFlags(tool)
  \/ Len(argv) > 0 /\ argv[Len(argv)] \in ValueFlags(tool)

\* the current invocation has issued no request and started no subprocess
NothingStarted ==
  /\ searchRequests = <<>>
  /\ Len(reqs) = 0
  /\ totalRows = Undef
  /\ \A k \in 1..Len(spawned) : spawned[k] # runs

\* C18: in each of the three tools, an argument list with an unknown flag
\* or with a value flag as its last token is, once parsed, a validation
\* error with exit status 1, before any request or subprocess; the flag is
\* not taken into the search query or the SQL query.
C18_MalformedArgvRejected ==
  (MalformedArgv /\ pc # "parse")
    => /\ pc = "exited"
       /\ failure = "validation"
       /\ exitCode = 1
       /\ NothingStarted
       /\ \A i \in 1..Len(searchQuery) : ~StartsWithDashes(searchQuery[i])
       /\ ~StartsWithDashes(query)

\* C19: while duckdb is not installed, no query file is written, the sql
\* directory is not created and no subprocess is spawned; a run that finds
\* the engine missing ends caught, with exit status 1.
C19_EngineCheckedFirst ==
  /\ ~duckdbInstalled
       => /\ sqlFiles = {}
          /\ saved = <<>>
          /\ dirs = {"."}
          /\ spawned = <<>>
          /\ pc \notin {"await-duckdb", "done"}
  /\ failure = "duckdb"
       => /\ ~duckdbInstalled
          /\ pc = "exited"
          /\ exitCode = 1
          /\ caught

\* the engine was found missing, on a second invocation too
C19_Witness == failure = "duckdb" /\ runs = 2 /\ query = "q2"

\* C20: the query of every successful invocation is kept in a file of its
\* own: the file written by the invocation still holds its query text, and
\* two successful invocations never wrote the same file.
C20_EveryQueryKeepsItsFile ==
  \A k \in 1..Len(saved) :
    saved[k].succeeded
      => /\ [dir |-> saved[k].dir, name |-> saved[k].name,
             text |-> saved[k].text] \in sqlFiles
         /\ \A j \in 1..Len(saved) :
              (j # k /\ saved[j].succeeded)
                => ~(saved[j].dir = saved[k].dir
                     /\ saved[j].name = saved[k].name)

\* the count a well-formed response stands for: the value of a count field
\* that is the decimal text of a natural number, else 0
ExpectedCount(result) ==
  IF /\ result.isArray
     /\ Len(result.elements) > 0
     /\ result.elements[1].hasCount
     /\ \E c \in Counts : ToString(c) = result.elements[1].count
  THEN CHOOSE c \in Counts : ToString(c) = result.elements[1].count
  ELSE 0

\* C21: once countRows has resolved on a well-formed response, its value is
\* a natural number: the count field of the first element, and 0 for an
\* empty array, an absent count field or a malformed one.
C21_CountIsNaturalNumber ==
  totalRows # Undef
    => /\ totalRows \in Nat
       /\ totalRows = ExpectedCount(countBody)

\* the number of data rows returned by the first n pages
RECURSIVE RowsReturned(_)
RowsReturned(n) == IF n = 0 THEN 0 ELSE RowsReturned(n - 1) + rets[n]

\* every response so far was a page of rows
OnlyRowPages == \A k \in 1..Len(kinds) : kinds[k] = "rows"

\* C22: with a page size P >= 1 and a remote that answers with pages of
\* rows, the $offset of every request equals the number of data rows
\* returned by the earlier pages (0 for the first), in both formats.
C22_OffsetIsRowsReturned ==
  (chunkSize >= 1 /\ OnlyRowPages)
    => \A k \in 1..Len(reqs) : reqs[k].offset = RowsReturned(k - 1)

\* C23: page fetches are sequential and ordered: at most one request is
\* unanswered; while a request is outstanding every row of the pages
\* received before it is already in the output file; and the $offset
\* values of successive requests strictly increase.
C23_FetchesSequentialInOrder ==
  /\ Len(reqs) - Len(rets) \in {0, 1}
  /\ pc \in {"loop", "finish", "done"} => Len(reqs) = Len(rets)
  /\ pc = "await" => (Len(reqs) = Len(rets) + 1 /\ FileRows = received)
  /\ \A k \in 1..(Len(reqs) - 1) : reqs[k].offset < reqs[k + 1].offset

\* a page of zero rows is the last page requested
ZeroRowPageEndsLoop ==
  (chunkSize >= 1 /\ OnlyRowPages)
    => \A k \in 1..Len(rets) : rets[k] = 0 => Len(reqs) = k

\* C24: with a page size P >= 1, a page that returns zero rows ends the
\* loop, and against a remote that answers every request with exactly the
\* rows it holds for it (none past the end) a download that has entered
\* its loop comes to its end.
C24_DownloadTerminates ==
  /\ []ZeroRowPageEndsLoop
  /\ (pc = "loop" /\ chunkSize >= 1)
       ~> (pc \in {"done", "exited"} \/ ~wellBehaved)

\* C25: every request carries a $limit of at least 1; with a row limit L
\* it is min(P, L - rows counted as committed when it was issued), so the
\* first one is min(P, L); without a limit and without a pre-counted total
\* it is the page size P.
C25_CapIsPositiveAndBounded ==
  \A k \in 1..Len(reqs) :
    /\ reqs[k].limit >= 1
    /\ (limit # Undef /\ limit # NaN /\ limit >= 1)
         => reqs[k].limit = Min(chunkSize, limit - reqs[k].counted)
    /\ (limit = Undef /\ noConfirm) => reqs[k].limit = chunkSize

\* C26: in json format, when the parse of a page fails nothing of that page
\* is written: the file holds the opening bracket and the records of the
\* pages received before it, separated by commas, and does not end in a
\* comma; the run is over.
C26_FailedPageNotCommitted ==
  failure = "parse"
    => /\ pc = "exited"
       /\ kinds[Len(kinds)] = "truncated"
       /\ file = OpenArray(received)
       /\ file[Len(file)] # COMMA
       /\ (Len(file) >= 2 => file[Len(file) - 1] # COMMA)

\* C26 witness: the parse failed on a page that came after a page of rows.
C26_Witness ==
  /\ failure = "parse"
  /\ Len(kinds) >= 2
  /\ rets[1] >= 2

\* C27: when parseArgs of the download tool rejects its arguments the
\* process has exited with status 1 and nothing else has happened: no
\* directory was made, no count or page request was issued and the
\* destination file was not opened.
C27_RejectionLeavesNoTrace ==
  (tool = "download-dataset" /\ failure = "validation")
    => /\ pc = "exited"
       /\ exitCode = 1
       /\ ~ParseDownload(argv).ok
       /\ dirs = {"."}
       /\ totalRows = Undef
       /\ countBody = NoBody
       /\ Len(reqs) = 0
       /\ opened = 0
       /\ file = <<>>

\* C27 witness: an argument list that names an output directory and then
\* an unknown option was rejected.
C27_Witness ==
  /\ tool = "download-dataset"
  /\ failure = "validation"
  /\ argv = <<"abcd-1234", "--output-dir", "out", "--bogus">>

\* C28: with a page size P >= 1 and a remote that answers with pages of
\* rows, at every page boundary and at completion the row counter that the
\* progress line and the completion line show equals the number of data
\* rows in the output file.
C28_ReportedRowsAreWrittenRows ==
  (chunkSize >= 1 /\ OnlyRowPages /\ pc \in {"loop", "finish", "done"})
    => /\ downloadedRows = Len(FileRows)
       /\ (pc = "loop" /\ Len(progress) > 0)
            => progress[Len(progress)] = Len(FileRows)

\* C29: when a total is known (a limit or a pre-counted total) the counter
\* shown by a progress line is never above it.
C29_ProgressWithinTotal ==
  (chunkSize >= 1 /\ OnlyRowPages /\ Truthy(rowsToDownload))
    => \A i \in 1..Len(progress) : progress[i] <= rowsToDownload

\* the sum of the $limit values of the first n requests
RECURSIVE RowsRequested(_)
RowsRequested(n) == IF n = 0 THEN 0 ELSE RowsRequested(n - 1) + reqs[n].limit

\* C30: without --limit, after the confirmation path counted a total, the
\* rows requested and the rows written never exceed that total, however
\* many rows the remote holds.
C30_CountedTotalIsHardCap ==
  (chunkSize >= 1 /\ OnlyRowPages /\ limit = Undef /\ ~noConfirm
     /\ totalRows # Undef /\ totalRows # NaN /\ totalRows >= 0)
    => /\ RowsRequested(Len(reqs)) <= totalRows
       /\ Len(FileRows) <= totalRows
====
